---------------------------- MODULE Spec2Model ----------------------------
(***************************************************************************)
(* A model of the MQuickJS sandbox wrappers: the native Ruby extension     *)
(* (ext/mquickjs/mquickjs_ext.c) and the FFI wrapper                       *)
(* (mquickjs-ruby-ffi/lib/mquickjs/ffi/mquickjs_wrapper.c).                *)
(*                                                                         *)
(* A session is one ContextWrapper.  An eval is an activation of           *)
(* sandbox_eval / mqjs_eval: a frame on the calling thread's stack, from   *)
(* the entry of the call to the point where the call hands its outcome to  *)
(* the host.  Between the two the embedded interpreter runs the script and *)
(* calls back into interrupt_handler, js_print and js_fetch; js_fetch in   *)
(* turn calls the host's HTTP callback, which is host code and may return, *)
(* raise, or call eval again.                                              *)
(***************************************************************************)
EXTENDS Integers, Sequences, FiniteSets, TLC

(***************************************************************************)
(* Bounds of the model.                                                    *)
(***************************************************************************)
MaxClock == 3       \* the monotonic clock is read in 0..MaxClock
MaxDepth == 2       \* eval activations nested on one thread
MaxPrints == 2      \* print calls made by one eval
MaxEvals == 2       \* eval calls made on one session

(***************************************************************************)
(* Program constants.                                                      *)
(***************************************************************************)
INITIAL_CAPACITY == 1024        \* console_output_capacity at creation
JS_CLASS_SYNTAX_ERROR == 13     \* the class id sandbox_eval tests for

NULL == 0                       \* the null pointer; sessions are numbered from 1
Qnil == "Qnil"                  \* Ruby's nil

Sessions == {1, 2}
Threads == {1, 2}

(***************************************************************************)
(* Bytes and script values.  A byte is a one-character string; text is a   *)
(* sequence of bytes.                                                      *)
(***************************************************************************)
Fill(b, n) == [i \in 1..n |-> b]

JSString(bytes) == [tag |-> "string", bytes |-> bytes, val |-> 0]
JSInt(n) == [tag |-> "int", bytes |-> <<>>, val |-> n]

Digit(d) == <<"0", "1", "2", "3", "4", "5", "6", "7", "8", "9">>[d + 1]

RECURSIVE NatToBytes(_)
NatToBytes(n) ==
    IF n < 10 THEN <<Digit(n)>> ELSE NatToBytes(n \div 10) \o <<Digit(n % 10)>>

\* JS_ToString on a number, then JS_ToCStringLen: the decimal text.
JS_ToString(v) ==
    IF v.tag = "string" THEN v.bytes
    ELSE IF v.val < 0 THEN <<"-">> \o NatToBytes(-v.val)
    ELSE NatToBytes(v.val)

(***************************************************************************)
(* append_console_output, on one wrapper record w.  realloc_ok says        *)
(* whether a realloc asked for by this call succeeds.                      *)
(***************************************************************************)
\* The whole text taken, whatever room is left.
ToAppend_Unclamped(w, len) == len

ToAppend(w, len) ==
    LET available == w.console_max_size - w.console_output_len
    IN  IF len < available THEN len ELSE available

NeedsGrowth(w, len) ==
    /\ len # 0
    /\ w.console_output_len < w.console_max_size
    /\ w.console_output_len + ToAppend(w, len) > w.console_output_capacity

\* The doubled capacity, not clamped to the cap.
NewCapacity_Unclamped(w, to_append) ==
    LET doubled == w.console_output_capacity * 2
    IN  IF doubled < w.console_output_len + to_append
        THEN w.console_output_len + to_append
        ELSE doubled

NewCapacity(w, to_append) ==
    LET doubled == w.console_output_capacity * 2
        clamped == IF doubled > w.console_max_size THEN w.console_max_size ELSE doubled
    IN  IF clamped < w.console_output_len + to_append
        THEN w.console_output_len + to_append
        ELSE clamped

\* A text that does not fit whole is dropped instead of cut.
append_console_output_AllOrNothing(w, str, realloc_ok) ==
    IF Len(str) = 0 THEN w
    ELSE IF w.console_output_len >= w.console_max_size
    THEN [w EXCEPT !.console_truncated = TRUE]
    ELSE IF ToAppend(w, Len(str)) < Len(str)
    THEN [w EXCEPT !.console_truncated = TRUE]
    ELSE IF NeedsGrowth(w, Len(str)) /\ ~realloc_ok
    THEN w
    ELSE [w EXCEPT
            !.console_output_capacity =
                IF NeedsGrowth(w, Len(str)) THEN NewCapacity(w, Len(str)) ELSE @,
            !.console_output = SubSeq(@, 1, w.console_output_len) \o str,
            !.console_output_len = @ + Len(str)]

\* Of a text that does not fit whole, the last bytes are stored instead of
\* the first.
append_console_output_KeepsTail(w, str, realloc_ok) ==
    IF Len(str) = 0 THEN w
    ELSE IF w.console_output_len >= w.console_max_size
    THEN [w EXCEPT !.console_truncated = TRUE]
    ELSE LET to_append == ToAppend(w, Len(str))
             w1 == IF to_append < Len(str)
                   THEN [w EXCEPT !.console_truncated = TRUE]
                   ELSE w
         IN  IF NeedsGrowth(w, Len(str)) /\ ~realloc_ok
             THEN w1
             ELSE [w1 EXCEPT
                     !.console_output_capacity =
                         IF NeedsGrowth(w, Len(str)) THEN NewCapacity(w, to_append) ELSE @,
                     !.console_output =
                         SubSeq(@, 1, w.console_output_len)
                             \o SubSeq(str, Len(str) - to_append + 1, Len(str)),
                     !.console_output_len = @ + to_append]

\* A text passed when the buffer is already full is dropped without the
\* flag being set.
append_console_output_QuietWhenFull(w, str, realloc_ok) ==
    IF Len(str) = 0 THEN w
    ELSE IF w.console_output_len >= w.console_max_size
    THEN w
    ELSE LET to_append == ToAppend(w, Len(str))
             w1 == IF to_append < Len(str)
                   THEN [w EXCEPT !.console_truncated = TRUE]
                   ELSE w
         IN  IF NeedsGrowth(w, Len(str)) /\ ~realloc_ok
             THEN w1
             ELSE [w1 EXCEPT
                     !.console_output_capacity =
                         IF NeedsGrowth(w, Len(str)) THEN NewCapacity(w, to_append) ELSE @,
                     !.console_output =
                         SubSeq(@, 1, w.console_output_len) \o SubSeq(str, 1, to_append),
                     !.console_output_len = @ + to_append]

\* The capacity asked for is recorded although the realloc failed.
append_console_output_GrowsAnyway(w, str, realloc_ok) ==
    IF Len(str) = 0 THEN w
    ELSE IF w.console_output_len >= w.console_max_size
    THEN [w EXCEPT !.console_truncated = TRUE]
    ELSE LET to_append == ToAppend(w, Len(str))
             w1 == IF to_append < Len(str)
                   THEN [w EXCEPT !.console_truncated = TRUE]
                   ELSE w
         IN  IF NeedsGrowth(w, Len(str)) /\ ~realloc_ok
             THEN [w1 EXCEPT !.console_output_capacity = NewCapacity(w, to_append)]
             ELSE [w1 EXCEPT
                     !.console_output_capacity =
                         IF NeedsGrowth(w, Len(str)) THEN NewCapacity(w, to_append) ELSE @,
                     !.console_output =
                         SubSeq(@, 1, w.console_output_len) \o SubSeq(str, 1, to_append),
                     !.console_output_len = @ + to_append]

append_console_output(w, str, realloc_ok) ==
    IF Len(str) = 0 THEN w
    ELSE IF w.console_output_len >= w.console_max_size
    THEN [w EXCEPT !.console_truncated = TRUE]
    ELSE LET to_append == ToAppend(w, Len(str))
             w1 == IF to_append < Len(str)
                   THEN [w EXCEPT !.console_truncated = TRUE]
                   ELSE w
         IN  IF NeedsGrowth(w, Len(str)) /\ ~realloc_ok
             THEN w1
             ELSE [w1 EXCEPT
                     !.console_output_capacity =
                         IF NeedsGrowth(w, Len(str)) THEN NewCapacity(w, to_append) ELSE @,
                     !.console_output =
                         SubSeq(@, 1, w.console_output_len) \o SubSeq(str, 1, to_append),
                     !.console_output_len = @ + to_append]


(***************************************************************************)
(* js_print: the texts it passes to append_console_output, in call order,  *)
(* and the wrapper after all of them.  oom is the set of positions in that *)
(* order whose realloc, if one is asked for, fails.                        *)
(***************************************************************************)
RECURSIVE PrintPieces(_, _)
PrintPieces(argv, i) ==
    IF i > Len(argv) THEN << <<"\n">> >>
    ELSE (IF i > 1 THEN << <<" ">> >> ELSE << >>)
         \o << JS_ToString(argv[i]) >>
         \o PrintPieces(argv, i + 1)

RECURSIVE AppendAll(_, _, _, _)
AppendAll(w, pieces, i, oom) ==
    IF i > Len(pieces) THEN w
    ELSE AppendAll(append_console_output(w, pieces[i], i \notin oom), pieces, i + 1, oom)

PrintAppends(w, argv, oom) == AppendAll(w, PrintPieces(argv, 1), 1, oom)

\* Whether some append in the run dropped its bytes on a failed realloc.
RECURSIVE AnyReallocFailed(_, _, _, _)
AnyReallocFailed(w, pieces, i, oom) ==
    IF i > Len(pieces) THEN FALSE
    ELSE \/ (NeedsGrowth(w, Len(pieces[i])) /\ i \in oom)
         \/ AnyReallocFailed(append_console_output(w, pieces[i], i \notin oom),
                             pieces, i + 1, oom)

\* The calls of append_console_output one print makes, as the log keeps them.
RECURSIVE LoggedCalls(_, _, _, _)
LoggedCalls(w, pieces, i, oom) ==
    IF i > Len(pieces) THEN <<>>
    ELSE <<[str |-> pieces[i],
            dropped |-> NeedsGrowth(w, Len(pieces[i])) /\ i \in oom]>>
         \o LoggedCalls(append_console_output(w, pieces[i], i \notin oom),
                        pieces, i + 1, oom)

RECURSIVE TotalLen(_, _)
TotalLen(pieces, i) ==
    IF i > Len(pieces) THEN 0 ELSE Len(pieces[i]) + TotalLen(pieces, i + 1)

(***************************************************************************)
(* get_time_ms and interrupt_handler.  The handler returns the wrapper it  *)
(* leaves and the value it gives the interpreter (1: interrupt).           *)
(***************************************************************************)
get_time_ms(clock) == clock

\* The handler with the deadline itself counted as past it.
interrupt_handler_AtDeadline(w, clock) ==
    IF w.timeout_ms > 0 /\ get_time_ms(clock) - w.start_time_ms >= w.timeout_ms
    THEN [w |-> [w EXCEPT !.timed_out = TRUE], ret |-> 1]
    ELSE [w |-> w, ret |-> 0]

\* The handler restarting the budget when it asks for the interrupt.
interrupt_handler_Rearm(w, clock) ==
    IF w.timeout_ms > 0 /\ get_time_ms(clock) - w.start_time_ms > w.timeout_ms
    THEN [w |-> [w EXCEPT !.timed_out = TRUE, !.start_time_ms = get_time_ms(clock)],
          ret |-> 1]
    ELSE [w |-> w, ret |-> 0]

interrupt_handler(w, clock) ==
    IF w.timeout_ms > 0 /\ get_time_ms(clock) - w.start_time_ms > w.timeout_ms
    THEN [w |-> [w EXCEPT !.timed_out = TRUE], ret |-> 1]
    ELSE [w |-> w, ret |-> 0]

(***************************************************************************)
(* A wrapper after a successful creation (sandbox_initialize,              *)
(* mqjs_new_context).                                                      *)
(***************************************************************************)
NewWrapper(timeout_ms, console_max_size) ==
    [timeout_ms |-> timeout_ms,
     timed_out |-> FALSE,
     start_time_ms |-> 0,
     console_max_size |-> console_max_size,
     console_output_capacity |->
         IF INITIAL_CAPACITY > console_max_size THEN console_max_size
         ELSE INITIAL_CAPACITY,
     console_output |-> <<>>,
     console_output_len |-> 0,
     console_truncated |-> FALSE,
     rb_http_callback |-> Qnil]

(***************************************************************************)
(* The value marshaler.  A host (Ruby) value and a script value are        *)
(* records of one shape: bytes is the text of a string, val the number of  *)
(* a number (floats are modelled for integral values only), items the      *)
(* elements of an array or the values of a hash or object, keys the keys   *)
(* of a hash or object, in order.                                          *)
(***************************************************************************)
INT32_MAX == 2147483647
INT32_MIN == -INT32_MAX - 1
TwoTo30 == 1073741824           \* a tagged integer has 31 bits: -2^30 .. 2^30 - 1

RbValue(type, bytes, val, items, keys) ==
    [type |-> type, bytes |-> bytes, val |-> val, items |-> items, keys |-> keys]

RbNil == RbValue("nil", <<>>, 0, <<>>, <<>>)
RbBool(b) == RbValue(IF b THEN "true" ELSE "false", <<>>, 0, <<>>, <<>>)
RbInt(n) == RbValue("fixnum", <<>>, n, <<>>, <<>>)
RbFloat(n) == RbValue("float", <<>>, n, <<>>, <<>>)
RbString(bytes) == RbValue("string", bytes, 0, <<>>, <<>>)
RbArray(items) == RbValue("array", <<>>, 0, items, <<>>)
RbHash(keys, items) == RbValue("hash", <<>>, 0, items, keys)
Qundef == RbValue("undef", <<>>, 0, <<>>, <<>>)

JSValue(tag, bytes, val, items, keys) ==
    [tag |-> tag, bytes |-> bytes, val |-> val, items |-> items, keys |-> keys]

JS_NULL == JSValue("null", <<>>, 0, <<>>, <<>>)
JS_UNDEFINED == JSValue("undefined", <<>>, 0, <<>>, <<>>)
JS_TRUE == JSValue("true", <<>>, 0, <<>>, <<>>)
JS_FALSE == JSValue("false", <<>>, 0, <<>>, <<>>)
JS_EXCEPTION == JSValue("exception", <<>>, 0, <<>>, <<>>)
JS_NewFloat64(n) == JSValue("float", <<>>, n, <<>>, <<>>)
JS_NewString(bytes) == JSValue("string", bytes, 0, <<>>, <<>>)

\* (int32_t)val >> 1 on the word of a tagged integer, which holds n shifted
\* left by one: the low 31 bits of n, sign-extended.
JS_VALUE_GET_INT(n) ==
    IF n >= TwoTo30 THEN (n - TwoTo30) - TwoTo30
    ELSE IF n < -TwoTo30 THEN (n + TwoTo30) + TwoTo30
    ELSE n

\* JS_NewInt32 of the interpreter: a tagged integer; for an integer that
\* does not fit the 31 bits of the tag, boxed says whether the interpreter
\* makes a float of it instead.
JS_NewInt32(n, boxed) ==
    IF boxed /\ (n >= TwoTo30 \/ n < -TwoTo30)
    THEN JS_NewFloat64(n)
    ELSE JSValue("int", <<>>, n, <<>>, <<>>)

\* JS_NewInt64 of the interpreter, for an integer outside the 32-bit range:
\* a float.  A number TLC's integers cannot hold, or one that is not
\* integral, is carried by its decimal text in bytes.
JS_NewInt64(rb_val) == JSValue("float", rb_val.bytes, rb_val.val, <<>>, <<>>)

\* val >= INT32_MIN && val <= INT32_MAX
InInt32Range(rb_val) ==
    rb_val.bytes = <<>> /\ rb_val.val >= INT32_MIN /\ rb_val.val <= INT32_MAX

(***************************************************************************)
(* ruby_to_js.  ctx stands for the interpreter's choices during one        *)
(* conversion: boxed (see JS_NewInt32), fails (the values whose own        *)
(* allocation in the arena fails) and store_fails (the values whose store  *)
(* into their array or object fails), values being numbered from pos in    *)
(* the order the conversion reaches them.  The result is the script value  *)
(* val, the number of values the conversion was called on (visited), the   *)
(* number of the value whose allocation failed (failed_at, 0: none), and   *)
(* whether a store failed (lost): JS_SetPropertyUint32 and                 *)
(* JS_SetPropertyStr are called without a look at what they return.        *)
(***************************************************************************)
Converted(val, visited, failed_at, lost) ==
    [val |-> val, visited |-> visited, failed_at |-> failed_at, lost |-> lost]

\* One allocating call of the interpreter for the value numbered pos.
Allocated(ctx, pos, val) ==
    IF pos \in ctx.fails THEN Converted(JS_EXCEPTION, 1, pos, FALSE)
    ELSE Converted(val, 1, 0, FALSE)

RECURSIVE ruby_to_js(_, _, _)
RECURSIVE ConvertItems(_, _, _, _, _)
\* The elements of rb_val from the i-th on, the i-th being numbered pos;
\* acc is the conversion of the container so far.
ConvertItems(ctx, rb_val, i, pos, acc) ==
    IF i > Len(rb_val.items) THEN acc
    ELSE LET r == ruby_to_js(ctx, rb_val.items[i], pos)
             stored == pos \notin ctx.store_fails
         IN  IF r.val.tag = "exception"
             THEN Converted(JS_EXCEPTION, acc.visited + r.visited, r.failed_at,
                            acc.lost \/ r.lost)
             ELSE ConvertItems(ctx, rb_val, i + 1, pos + r.visited,
                      Converted(
                          [acc.val EXCEPT
                              !.items = IF stored THEN Append(@, r.val)
                                        ELSE IF rb_val.type = "array"
                                        THEN Append(@, JS_UNDEFINED)
                                        ELSE @,
                              !.keys = IF stored /\ rb_val.type = "hash"
                                       THEN Append(@, rb_val.keys[i]) ELSE @],
                          acc.visited + r.visited, 0, acc.lost \/ r.lost \/ ~stored))

ruby_to_js(ctx, rb_val, pos) ==
    IF rb_val.type = "nil" THEN Converted(JS_NULL, 1, 0, FALSE)
    ELSE IF rb_val.type = "true" THEN Converted(JS_TRUE, 1, 0, FALSE)
    ELSE IF rb_val.type = "false" THEN Converted(JS_FALSE, 1, 0, FALSE)
    ELSE IF rb_val.type = "fixnum"
    THEN (IF InInt32Range(rb_val)
          THEN (IF JS_NewInt32(rb_val.val, ctx.boxed).tag = "int"
                THEN Converted(JS_NewInt32(rb_val.val, ctx.boxed), 1, 0, FALSE)
                ELSE Allocated(ctx, pos, JS_NewInt32(rb_val.val, ctx.boxed)))
          ELSE Allocated(ctx, pos, JS_NewInt64(rb_val)))
    ELSE IF rb_val.type = "float"
    THEN Allocated(ctx, pos, JSValue("float", rb_val.bytes, rb_val.val, <<>>, <<>>))
    ELSE IF rb_val.type = "string" THEN Allocated(ctx, pos, JS_NewString(rb_val.bytes))
    ELSE IF rb_val.type = "symbol" THEN Allocated(ctx, pos, JS_NewString(rb_val.bytes))
    ELSE IF rb_val.type = "array"
    THEN (IF Allocated(ctx, pos, JS_NULL).val.tag = "exception"
          THEN Allocated(ctx, pos, JS_NULL)
          ELSE ConvertItems(ctx, rb_val, 1, pos + 1,
                   Converted(JSValue("array", <<>>, 0, <<>>, <<>>), 1, 0, FALSE)))
    ELSE IF rb_val.type = "hash"
    THEN (IF Allocated(ctx, pos, JS_NULL).val.tag = "exception"
          THEN Allocated(ctx, pos, JS_NULL)
          ELSE ConvertItems(ctx, rb_val, 1, pos + 1,
                   Converted(JSValue("object", <<>>, 0, <<>>, <<>>), 1, 0, FALSE)))
    ELSE Allocated(ctx, pos, JS_NewString(rb_val.bytes))

\* The interpreter's text of a value: a number in decimal, the elements of
\* an array joined by commas, "[object Object]" for an object.
RECURSIVE JS_ToStringOf(_)
RECURSIVE JoinItems(_, _)
JoinItems(items, i) ==
    IF i > Len(items) THEN <<>>
    ELSE (IF i > 1 THEN <<",">> ELSE <<>>) \o JS_ToStringOf(items[i])
         \o JoinItems(items, i + 1)

JS_ToStringOf(v) ==
    IF v.tag = "float" /\ v.bytes # <<>> THEN v.bytes
    ELSE IF v.tag \in {"string", "int", "float"} THEN JS_ToString(v)
    ELSE IF v.tag = "array" THEN JoinItems(v.items, 1)
    ELSE IF v.tag = "object"
    THEN <<"[", "o", "b", "j", "e", "c", "t", " ", "O", "b", "j", "e", "c", "t", "]">>
    ELSE IF v.tag = "null" THEN <<"n", "u", "l", "l">>
    ELSE IF v.tag = "true" THEN <<"t", "r", "u", "e">>
    ELSE IF v.tag = "false" THEN <<"f", "a", "l", "s", "e">>
    ELSE <<"u", "n", "d", "e", "f", "i", "n", "e", "d">>

js_to_ruby(val) ==
    IF val.tag \in {"null", "undefined"} THEN RbNil
    ELSE IF val.tag = "true" THEN RbBool(TRUE)
    ELSE IF val.tag = "false" THEN RbBool(FALSE)
    ELSE IF val.tag = "exception" THEN Qundef
    ELSE IF val.tag = "int" THEN RbInt(JS_VALUE_GET_INT(val.val))
    ELSE IF val.tag = "float" THEN RbValue("float", val.bytes, val.val, <<>>, <<>>)
    ELSE IF val.tag = "string" THEN RbString(val.bytes)
    ELSE RbString(JS_ToStringOf(val))

\* The value of the expression that reads the global x along path, a
\* sequence of property names: x, x.a, x.b.
RECURSIVE JS_GetPath(_, _)
JS_GetPath(v, path) ==
    IF path = <<>> THEN v
    ELSE IF v.tag = "object" /\ \E i \in 1..Len(v.keys) : v.keys[i] = path[1]
    THEN JS_GetPath(v.items[CHOOSE i \in 1..Len(v.keys) : v.keys[i] = path[1]],
                    Tail(path))
    ELSE JS_UNDEFINED

(***************************************************************************)
(* The state.                                                              *)
(***************************************************************************)
VARIABLES
    api,              \* which library the host loaded: "ext" or "ffi"
    now,              \* CLOCK_MONOTONIC, in milliseconds
    wrapper,          \* wrapper[s]: the ContextWrapper of session s
    current_wrapper,  \* current_wrapper[Slot(t)]: the __thread pointer of thread t
    stack,            \* stack[t]: the eval activations of thread t, innermost last
    last,             \* what the most recently ended eval call gave the host
    since_reset,      \* since_reset[s]: appends to s's buffer since its last reset
    evals,            \* evals[s]: the eval calls made on session s so far
    fetched,          \* the object js_fetch most recently returned to a script
    marshal,          \* marshal[s]: the global x of session s and its last reading
    heap              \* heap[o]: what host object o's creation and teardown did

vars == <<api, now, wrapper, current_wrapper, stack, last, since_reset, evals,
          fetched, marshal, heap>>

NoResult == [kind |-> "none", class_id |-> 0, msg_syntax |-> FALSE]

NoEval ==
    [sess |-> NULL, outcome |-> "none",
     console_output |-> <<>>, console_truncated |-> FALSE,
     res |-> NoResult, timed_out |-> FALSE, late_poll |-> FALSE,
     stored |-> 0, truncating |-> FALSE]

\* Nothing appended since the reset.  When logged is set the record also
\* keeps the capacity the buffer had at the reset and the calls of
\* append_console_output made since, in call order, each with its text and
\* whether it was dropped because the buffer could not grow.
NoAppends ==
    [fed_len |-> 0, realloc_failed |-> FALSE,
     logged |-> FALSE, capacity |-> 0, calls |-> <<>>]

Restart(log, w) ==
    [NoAppends EXCEPT !.logged = log.logged,
                      !.capacity = IF log.logged THEN w.console_output_capacity ELSE 0]

\* A callback result with every key absent.
EmptyResponse == [status |-> <<>>, statusText |-> <<>>, body |-> <<>>, headers |-> <<>>]

\* No fetch has returned yet.
NoResponse ==
    [returned |-> FALSE, status |-> 0, statusText |-> "", ok |-> FALSE, body |-> "",
     headers |-> <<>>, rb_response |-> EmptyResponse]

\* The global x is not set, and set_variable has not been called.  Beside
\* the global (rb_val: the host value it was made from) and its last
\* reading, the record keeps the last call of set_variable: its argument,
\* whether it raised, and what ruby_to_js reported.
NoGlobal ==
    [set |-> FALSE, rb_val |-> RbNil, js_val |-> JS_UNDEFINED,
     read |-> FALSE, path |-> <<>>, rb_value |-> RbNil,
     called |-> FALSE, arg |-> RbNil, raised |-> FALSE,
     visited |-> 0, failed_at |-> 0, lost |-> FALSE]

\* What a session is made of, in the order creation acquires it.
Resources == {"wrapper", "mem_buf", "console_output", "ctx"}

\* A host object before its creation. mem_buf, console_output and ctx are
\* the pointer fields of its ContextWrapper (TRUE: not NULL), handle says
\* whether the host holds a pointer to the ContextWrapper, acquired and
\* released count the allocations and the releases of each resource, and
\* failed_at names the step of the creation that failed.
NoObject ==
    [state |-> "none", handle |-> FALSE,
     mem_buf |-> FALSE, console_output |-> FALSE, ctx |-> FALSE,
     acquired |-> [r \in Resources |-> 0],
     released |-> [r \in Resources |-> 0],
     failed_at |-> "none"]

InitLogged(apis, timeouts, sizes, logged) ==
    /\ api \in apis
    /\ now = 0
    /\ \E tm \in timeouts, sz \in sizes :
           wrapper = [s \in Sessions |-> NewWrapper(tm, sz)]
    /\ current_wrapper = [t \in Threads |-> NULL]
    /\ stack = [t \in Threads |-> <<>>]
    /\ last = NoEval
    /\ since_reset = [s \in Sessions |->
           Restart([NoAppends EXCEPT !.logged = logged], wrapper[s])]
    /\ evals = [s \in Sessions |-> 0]
    /\ fetched = NoResponse
    /\ marshal = [s \in Sessions |-> NoGlobal]
    /\ heap = [o \in Sessions |-> NoObject]

InitWith(apis, timeouts, sizes) == InitLogged(apis, timeouts, sizes, FALSE)

(***************************************************************************)
(* The storage of current_wrapper.  It is declared __thread: each thread   *)
(* reads and writes a slot of its own.                                     *)
(***************************************************************************)
\* One slot shared by the whole process.
Slot_ProcessWide(t) == 1

Slot(t) == t

(***************************************************************************)
(* The data of the HTTP bridge (js_fetch).  An absent value is the empty   *)
(* sequence, a present one a sequence of one element; headers are a        *)
(* sequence of name-value pairs.                                           *)
(*   options: what the script passed as second argument;                   *)
(*            (given: it is neither undefined nor null);                   *)
(*   request: what js_fetch passes to the callback (with the options it    *)
(*            was made from, for reference);                               *)
(*   rb_response: the hash the callback returns;                           *)
(*   response: the object js_fetch returns to the script (with the         *)
(*            rb_response it was made from, for reference).                *)
(***************************************************************************)
NoOptions == [given |-> FALSE, method |-> <<>>, body |-> <<>>, headers |-> <<>>]

NoRequest ==
    [called |-> FALSE, method |-> "", body |-> <<>>, headers |-> <<>>,
     options |-> NoOptions]

\* options is read only if it is passed and neither undefined nor null.
OptionsRead(argc, options) == argc >= 2 /\ options.given

\* method points into a buffer whose block has ended when it is read:
\* stale says whether the bytes read there are still the script's.
RequestMethod(argc, options, stale) ==
    IF OptionsRead(argc, options) /\ options.method # <<>>
    THEN (IF stale THEN "(stale)" ELSE options.method[1])
    ELSE "GET"

RequestBody(argc, options, stale) ==
    IF OptionsRead(argc, options) /\ options.body # <<>>
    THEN (IF stale THEN <<"(stale)">> ELSE options.body)
    ELSE <<>>

\* The headers of the script are passed on.
RequestHeaders_Forwarded(argc, options) ==
    IF OptionsRead(argc, options) THEN options.headers ELSE <<>>

\* rb_hash_new(): the headers option is never read.
RequestHeaders(argc, options) == <<>>

Request(argc, options, stale) ==
    [called |-> TRUE,
     method |-> RequestMethod(argc, options, stale),
     body |-> RequestBody(argc, options, stale),
     headers |-> RequestHeaders(argc, options),
     options |-> IF argc >= 2 THEN options ELSE NoOptions]

DefaultStatus == 200

ResponseStatus(rb_response) ==
    IF rb_response.status = <<>> THEN DefaultStatus ELSE rb_response.status[1]

\* ok without the upper limit.
ResponseOk_NoUpperLimit(status) == status >= 200

ResponseOk(status) == status >= 200 /\ status < 300

Response(rb_response) ==
    [returned |-> TRUE,
     status |-> ResponseStatus(rb_response),
     statusText |-> IF rb_response.statusText = <<>> THEN "OK"
                    ELSE rb_response.statusText[1],
     ok |-> ResponseOk(ResponseStatus(rb_response)),
     body |-> IF rb_response.body = <<>> THEN "" ELSE rb_response.body[1],
     headers |-> <<>>,
     rb_response |-> rb_response]

(***************************************************************************)
(* Frames.  Beside the activation's own state (the session it was called   *)
(* on, whether its text is malformed, whether the interpreter was asked to *)
(* interrupt, whether it waits in the HTTP callback) a frame records what  *)
(* the eval did: when it was entered, how many bytes its prints passed to  *)
(* append (counted up to one more than the cap) and how many of them were  *)
(* stored, whether one of its appends set the truncated flag, and whether  *)
(* one of its polls came after its own deadline.                           *)
(***************************************************************************)
Top(t) == stack[t][Len(stack[t])]

Pop(t) == [stack EXCEPT ![t] = SubSeq(@, 1, Len(@) - 1)]

\* The interpreter of thread t's innermost eval is executing.
Running(t) == IF stack[t] = <<>> THEN FALSE ELSE ~Top(t).in_callback

\* Host code runs on thread t: outside every eval, or inside the HTTP callback.
HostRuns(t) == IF stack[t] = <<>> THEN TRUE ELSE Top(t).in_callback

NewFrame(s, code) ==
    [sess |-> s, malformed |-> (code = "malformed"),
     in_callback |-> FALSE, aborted |-> FALSE, prints |-> 0,
     entry_time |-> now, fed_len |-> 0, stored |-> 0, truncating |-> FALSE,
     late_poll |-> FALSE, request |-> NoRequest]

Min(a, b) == IF a < b THEN a ELSE b

\* The frame's deadline has passed: its own elapsed time exceeds the budget.
PastDeadline(f) ==
    /\ wrapper[f.sess].timeout_ms > 0
    /\ now - f.entry_time > wrapper[f.sess].timeout_ms

(***************************************************************************)
(* The embedded interpreter (JS_Eval), as far as the wrappers depend on    *)
(* it: it runs the script of a well-formed text, polling the interrupt     *)
(* handler at points of its choice; once the handler has asked for an      *)
(* interrupt the script runs no further; a malformed text is rejected      *)
(* without running anything, with a syntax error.                          *)
(***************************************************************************)
OTHER_CLASS == JS_CLASS_SYNTAX_ERROR + 1

JSValues == {[kind |-> "value", class_id |-> 0, msg_syntax |-> FALSE]}

JSExceptions ==
    [kind : {"exception"},
     class_id : {JS_CLASS_SYNTAX_ERROR, OTHER_CLASS},
     msg_syntax : BOOLEAN]

ScriptRuns(f) == ~f.malformed /\ ~f.aborted

InterpPolls(f) == ~f.malformed

InterpMayReturn(f, res) ==
    f.malformed =>
        /\ res.kind = "exception"
        /\ (res.class_id = JS_CLASS_SYNTAX_ERROR \/ res.msg_syntax)

(***************************************************************************)
(* The clock.                                                              *)
(***************************************************************************)
Tick ==
    /\ now < MaxClock
    /\ now' = now + 1
    /\ UNCHANGED <<heap, marshal, fetched, api, evals, wrapper, current_wrapper, stack, last, since_reset>>

(***************************************************************************)
(* What an eval call that ends hands to the host.  Only a Completed result *)
(* (and the FFI's getters) carries the console text and the flag.  Beside  *)
(* it: what the interpreter returned (none, when the call was unwound),    *)
(* the session's timed_out flag at that point, and the frame's record of   *)
(* its own polls and prints.                                               *)
(***************************************************************************)
Ended(f, outcome, res) ==
    LET w == wrapper[f.sess]
    IN  [sess |-> f.sess, outcome |-> outcome,
         console_output |->
             IF outcome \in {"Completed", "Returned"}
             THEN SubSeq(w.console_output, 1, w.console_output_len) ELSE <<>>,
         console_truncated |->
             IF outcome \in {"Completed", "Returned"} THEN w.console_truncated ELSE FALSE,
         res |-> res, timed_out |-> w.timed_out, late_poll |-> f.late_poll,
         stored |-> f.stored, truncating |-> f.truncating]

(***************************************************************************)
(* Sandbox#eval, up to its call of JS_Eval.  code is the source text:      *)
(* "script" (well-formed) or "malformed".                                  *)
(***************************************************************************)
ResetConsole(w) ==
    [w EXCEPT !.console_output = <<>>,
              !.console_output_len = 0,
              !.console_truncated = FALSE]

SetTiming(w, clock) ==
    [w EXCEPT !.start_time_ms = get_time_ms(clock), !.timed_out = FALSE]

sandbox_eval_enter(t, s, code) ==
    /\ api = "ext"
    /\ HostRuns(t)
    /\ Len(stack[t]) < MaxDepth
    /\ evals[s] < MaxEvals
    /\ wrapper' = [wrapper EXCEPT ![s] = SetTiming(ResetConsole(@), now)]
    /\ since_reset' = [since_reset EXCEPT ![s] = Restart(@, wrapper[s])]
    /\ current_wrapper' = [current_wrapper EXCEPT ![Slot(t)] = s]
    /\ stack' = [stack EXCEPT ![t] = Append(@, NewFrame(s, code))]
    /\ evals' = [evals EXCEPT ![s] = @ + 1]
    /\ UNCHANGED <<heap, marshal, fetched, api, now, last>>

(***************************************************************************)
(* mqjs_eval of the FFI wrapper, up to its call of JS_Eval.                *)
(***************************************************************************)
mqjs_eval_enter(t, s, code) ==
    /\ api = "ffi"
    /\ stack[t] = <<>>
    /\ evals[s] < MaxEvals
    /\ wrapper' = [wrapper EXCEPT ![s] = SetTiming(@, now)]
    /\ current_wrapper' = [current_wrapper EXCEPT ![Slot(t)] = s]
    /\ stack' = [stack EXCEPT ![t] = Append(@, NewFrame(s, code))]
    /\ evals' = [evals EXCEPT ![s] = @ + 1]
    /\ UNCHANGED <<heap, marshal, fetched, api, now, last, since_reset>>

(***************************************************************************)
(* The interpreter polls the interrupt handler of the running eval.  The   *)
(* opaque pointer it passes is the wrapper of the context it runs.         *)
(***************************************************************************)
Poll(t) ==
    /\ Running(t)
    /\ InterpPolls(Top(t))
    /\ LET s == Top(t).sess
           r == interrupt_handler(wrapper[s], now)
       IN  /\ wrapper' = [wrapper EXCEPT ![s] = r.w]
           /\ stack' = [stack EXCEPT ![t][Len(stack[t])] =
                  [@ EXCEPT !.aborted = @ \/ r.ret = 1,
                            !.late_poll = @ \/ PastDeadline(Top(t))]]
    /\ UNCHANGED <<heap, marshal, fetched, api, evals, now, current_wrapper, last, since_reset>>

(***************************************************************************)
(* print(...) called by the script of the running eval.                    *)
(***************************************************************************)
js_print(t, argv, oom) ==
    /\ Running(t)
    /\ ScriptRuns(Top(t))
    /\ Top(t).prints < MaxPrints
    /\ LET f == Top(t)
           cw == current_wrapper[Slot(t)]
           pieces == PrintPieces(argv, 1)
       IN  IF cw = NULL
           THEN /\ stack' = [stack EXCEPT ![t][Len(stack[t])].prints = @ + 1]
                /\ UNCHANGED <<wrapper, since_reset>>
           ELSE LET w == wrapper[cw]
                    w1 == PrintAppends(w, argv, oom)
                    mine == (cw = f.sess)
                    cap == w.console_max_size + 1
                IN  /\ wrapper' = [wrapper EXCEPT ![cw] = w1]
                    /\ since_reset' = [since_reset EXCEPT ![cw] =
                           [@ EXCEPT
                              !.fed_len = Min(@ + TotalLen(pieces, 1), cap),
                              !.realloc_failed =
                                  @ \/ AnyReallocFailed(w, pieces, 1, oom),
                              !.calls = IF since_reset[cw].logged
                                        THEN @ \o LoggedCalls(w, pieces, 1, oom)
                                        ELSE @]]
                    /\ stack' = [stack EXCEPT ![t][Len(stack[t])] =
                           [@ EXCEPT
                              !.prints = @ + 1,
                              !.fed_len = IF mine
                                          THEN Min(@ + TotalLen(pieces, 1), cap)
                                          ELSE @,
                              !.stored = IF mine
                                         THEN @ + w1.console_output_len
                                                - w.console_output_len
                                         ELSE @,
                              !.truncating = @ \/
                                  (mine /\ PrintAppends(
                                       [w EXCEPT !.console_truncated = FALSE],
                                       argv, oom).console_truncated)]]
    /\ UNCHANGED <<heap, marshal, fetched, api, evals, now, current_wrapper, last>>

(***************************************************************************)
(* fetch(...) called by the script of the running eval, up to its call of  *)
(* the host's HTTP callback.  The exceptions it throws are script          *)
(* exceptions: they change nothing in the wrapper.                         *)
(***************************************************************************)
FetchThrows(cw, argc, url_is_string) ==
    IF cw = NULL THEN "outside"
    ELSE IF wrapper[cw].rb_http_callback = Qnil THEN "disabled"
    ELSE IF argc < 1 THEN "type"
    ELSE IF ~url_is_string THEN "type"
    ELSE "no"

js_fetch(t, argc, url_is_string, options, stale) ==
    /\ api = "ext"
    /\ Running(t)
    /\ ScriptRuns(Top(t))
    /\ IF FetchThrows(current_wrapper[Slot(t)], argc, url_is_string) = "no"
       THEN stack' = [stack EXCEPT ![t][Len(stack[t])] =
                [@ EXCEPT !.in_callback = TRUE,
                          !.request = Request(argc, options, stale)]]
       ELSE UNCHANGED stack
    /\ UNCHANGED <<heap, marshal, fetched, api, evals, now, wrapper, current_wrapper, last, since_reset>>

\* The callback returns a response from which js_fetch builds its result.
js_fetch_resume(t, rb_response) ==
    /\ stack[t] # <<>>
    /\ Top(t).in_callback
    /\ stack' = [stack EXCEPT ![t][Len(stack[t])] =
           [@ EXCEPT !.in_callback = FALSE, !.request = NoRequest]]
    /\ fetched' = Response(rb_response)
    /\ UNCHANGED <<heap, marshal, api, evals, now, wrapper, current_wrapper, last, since_reset>>

(***************************************************************************)
(* The callback raises a host exception (or returns a response on which    *)
(* NUM2INT or StringValueCStr raises): rb_funcall is not protected, so the *)
(* exception unwinds js_fetch, JS_Eval and sandbox_eval, and the eval call *)
(* ends with it.  The code after JS_Eval does not run.                     *)
(***************************************************************************)
callback_raises(t) ==
    /\ stack[t] # <<>>
    /\ Top(t).in_callback
    /\ stack' = Pop(t)
    /\ last' = Ended(Top(t), "HostException", NoResult)
    /\ UNCHANGED <<heap, marshal, fetched, api, evals, now, wrapper, current_wrapper, since_reset>>

(***************************************************************************)
(* Sandbox#eval from the return of JS_Eval on.                             *)
(***************************************************************************)
is_syntax_error(res) == res.class_id = JS_CLASS_SYNTAX_ERROR \/ res.msg_syntax

\* The exception looked at before the timeout flag.
Outcome_ExceptionFirst(w, res) ==
    IF res.kind = "exception"
    THEN (IF is_syntax_error(res) THEN "SyntaxError" ELSE "ScriptError")
    ELSE IF w.timed_out THEN "TimedOut"
    ELSE "Completed"

Outcome(w, res) ==
    IF w.timed_out THEN "TimedOut"
    ELSE IF res.kind = "exception"
    THEN (IF is_syntax_error(res) THEN "SyntaxError" ELSE "ScriptError")
    ELSE "Completed"

sandbox_eval_return(t, res) ==
    /\ api = "ext"
    /\ Running(t)
    /\ InterpMayReturn(Top(t), res)
    /\ current_wrapper' = [current_wrapper EXCEPT ![Slot(t)] = NULL]
    /\ stack' = Pop(t)
    /\ last' = Ended(Top(t), Outcome(wrapper[Top(t).sess], res), res)
    /\ UNCHANGED <<heap, marshal, fetched, api, evals, now, wrapper, since_reset>>

(***************************************************************************)
(* mqjs_eval from the return of JS_Eval on; the host then reads the        *)
(* session through mqjs_get_console_output, mqjs_get_console_output_len    *)
(* and mqjs_console_truncated.                                             *)
(***************************************************************************)
mqjs_eval_return(t, res) ==
    /\ api = "ffi"
    /\ Running(t)
    /\ InterpMayReturn(Top(t), res)
    /\ current_wrapper' = [current_wrapper EXCEPT ![Slot(t)] = NULL]
    /\ stack' = Pop(t)
    /\ last' = Ended(Top(t), "Returned", res)
    /\ UNCHANGED <<heap, marshal, fetched, api, evals, now, wrapper, since_reset>>

(***************************************************************************)
(* Sandbox#http_callback=                                                  *)
(***************************************************************************)
sandbox_set_http_callback(t, s, callback) ==
    /\ api = "ext"
    /\ HostRuns(t)
    /\ wrapper[s].rb_http_callback # callback
    /\ wrapper' = [wrapper EXCEPT ![s].rb_http_callback = callback]
    /\ UNCHANGED <<heap, marshal, fetched, api, evals, now, current_wrapper, stack, last, since_reset>>

(***************************************************************************)
(* Sandbox#set_variable, for the variable x: the host value is converted   *)
(* and stored as the global x of the session's context; if the conversion  *)
(* returns the exception marker, the call raises before it touches the     *)
(* global.  ctx stands for the interpreter's choices (see ruby_to_js).      *)
(***************************************************************************)
sandbox_set_variable(t, s, rb_val, ctx) ==
    /\ api = "ext"
    /\ HostRuns(t)
    /\ LET r == ruby_to_js(ctx, rb_val, 1)
       IN  marshal' = [marshal EXCEPT ![s] =
               IF r.val.tag = "exception"
               THEN [@ EXCEPT !.called = TRUE, !.arg = rb_val, !.raised = TRUE,
                              !.visited = r.visited, !.failed_at = r.failed_at,
                              !.lost = r.lost]
               ELSE [NoGlobal EXCEPT !.set = TRUE, !.rb_val = rb_val,
                                     !.js_val = r.val,
                                     !.called = TRUE, !.arg = rb_val,
                                     !.visited = r.visited, !.lost = r.lost]]
    /\ UNCHANGED <<heap, fetched, api, evals, now, wrapper, current_wrapper, stack, last,
                   since_reset>>

(***************************************************************************)
(* Sandbox#eval of an expression that reads the global x along path, from  *)
(* entry to return: the interpreter calls no print and no fetch, the       *)
(* result is no exception, and js_to_ruby converts it for the host.        *)
(***************************************************************************)
sandbox_eval_variable(t, s, path) ==
    /\ api = "ext"
    /\ HostRuns(t)
    /\ evals[s] < MaxEvals
    /\ marshal[s].set
    /\ wrapper[s].timeout_ms <= 0
    /\ wrapper' = [wrapper EXCEPT ![s] = SetTiming(ResetConsole(@), now)]
    /\ since_reset' = [since_reset EXCEPT ![s] = Restart(@, wrapper[s])]
    /\ current_wrapper' = [current_wrapper EXCEPT ![Slot(t)] = NULL]
    /\ evals' = [evals EXCEPT ![s] = @ + 1]
    /\ last' = [Ended(NewFrame(s, "script"), "Completed", CHOOSE res \in JSValues : TRUE)
                   EXCEPT !.console_output = <<>>, !.console_truncated = FALSE,
                          !.timed_out = FALSE]
    /\ marshal' = [marshal EXCEPT ![s].read = TRUE, ![s].path = path,
                       ![s].rb_value = js_to_ruby(JS_GetPath(marshal[s].js_val, path))]
    /\ UNCHANGED <<heap, fetched, api, now, stack>>

(***************************************************************************)
(* Creation and teardown of a session.                                     *)
(***************************************************************************)
Acquire(h, rs) == [h EXCEPT !.acquired = [r \in Resources |->
                                 IF r \in rs THEN @[r] + 1 ELSE @[r]]]

Release(h, rs) == [h EXCEPT !.released = [r \in Resources |->
                                 IF r \in rs THEN @[r] + 1 ELSE @[r]]]

\* sandbox_alloc: the ContextWrapper is allocated and zeroed, and the host
\* object owns it from now on.
sandbox_alloc(o) ==
    /\ api = "ext"
    /\ heap[o].state = "none"
    /\ heap' = [heap EXCEPT ![o] =
           [Acquire(@, {"wrapper"}) EXCEPT !.state = "allocated", !.handle = TRUE]]
    /\ UNCHANGED <<marshal, fetched, now, wrapper, current_wrapper, stack, last,
                   since_reset, evals, api>>

\* Sandbox#initialize, with the step that fails (or "none"). The error
\* paths free what was allocated and raise; none of them clears a pointer
\* field, and the host object keeps its pointer to the ContextWrapper.
sandbox_initialize_Failed(h, fail) ==
    IF fail = "mem_buf"
    THEN [h EXCEPT !.state = "failed", !.failed_at = fail]
    ELSE IF fail = "console_output"
    THEN [Release(Acquire(h, {"mem_buf"}), {"mem_buf", "wrapper"})
             EXCEPT !.state = "failed", !.failed_at = fail, !.mem_buf = TRUE]
    ELSE [Release(Acquire(h, {"mem_buf", "console_output"}),
                  {"console_output", "mem_buf"})
             EXCEPT !.state = "failed", !.failed_at = fail,
                    !.mem_buf = TRUE, !.console_output = TRUE]

sandbox_initialize(o, fail) ==
    /\ api = "ext"
    /\ heap[o].state = "allocated"
    /\ heap' = [heap EXCEPT ![o] =
           IF fail = "none"
           THEN [Acquire(@, {"mem_buf", "console_output", "ctx"})
                    EXCEPT !.state = "ready", !.mem_buf = TRUE,
                           !.console_output = TRUE, !.ctx = TRUE]
           ELSE sandbox_initialize_Failed(@, fail)]
    /\ UNCHANGED <<marshal, fetched, now, wrapper, current_wrapper, stack, last,
                   since_reset, evals, api>>

\* The releases of sandbox_free and of mqjs_free_context, given the pointer
\* fields they read.
FreeFields(h, fields) ==
    [Release(h, {r \in Resources : r = "wrapper" \/ (r # "wrapper" /\ fields[r])})
        EXCEPT !.state = "collected", !.handle = FALSE]

StoredFields(h) ==
    [mem_buf |-> h.mem_buf, console_output |-> h.console_output, ctx |-> h.ctx]

\* sandbox_free, run when the host object is collected. It reads the three
\* pointer fields through the pointer the host object holds; if the
\* ContextWrapper was freed before, what it reads is anything (read).
sandbox_free(o, read) ==
    /\ api = "ext"
    /\ heap[o].state \in {"allocated", "ready", "failed"}
    /\ IF heap[o].released["wrapper"] > 0
       THEN TRUE
       ELSE read = StoredFields(heap[o])
    /\ heap' = [heap EXCEPT ![o] = FreeFields(@, read)]
    /\ UNCHANGED <<marshal, fetched, now, wrapper, current_wrapper, stack, last,
                   since_reset, evals, api>>

\* mqjs_new_context, with the step that fails (or "none"): each error path
\* frees what was allocated and returns NULL, so the host holds no pointer.
mqjs_new_context_Acquired(fail) ==
    IF fail = "wrapper" THEN {}
    ELSE IF fail = "mem_buf" THEN {"wrapper"}
    ELSE IF fail = "console_output" THEN {"wrapper", "mem_buf"}
    ELSE IF fail = "ctx" THEN {"wrapper", "mem_buf", "console_output"}
    ELSE Resources

mqjs_new_context(o, fail) ==
    /\ api = "ffi"
    /\ heap[o].state = "none"
    /\ LET got == mqjs_new_context_Acquired(fail)
       IN  heap' = [heap EXCEPT ![o] =
               IF fail = "none"
               THEN [Acquire(@, got) EXCEPT !.state = "ready", !.handle = TRUE,
                                            !.mem_buf = TRUE,
                                            !.console_output = TRUE, !.ctx = TRUE]
               ELSE [Release(Acquire(@, got), got)
                        EXCEPT !.state = "failed", !.failed_at = fail]]
    /\ UNCHANGED <<marshal, fetched, now, wrapper, current_wrapper, stack, last,
                   since_reset, evals, api>>

\* mqjs_free_context, called by the host with the pointer it was given:
\* with NULL it does nothing.
mqjs_free_context(o) ==
    /\ api = "ffi"
    /\ heap[o].state \in {"ready", "failed"}
    /\ heap' = [heap EXCEPT ![o] =
           IF heap[o].handle
           THEN FreeFields(@, StoredFields(@))
           ELSE [@ EXCEPT !.state = "collected"]]
    /\ UNCHANGED <<marshal, fetched, now, wrapper, current_wrapper, stack, last,
                   since_reset, evals, api>>

(***************************************************************************)
(* Specifications.                                                         *)
(***************************************************************************)
Codes == {"script", "malformed"}
Callbacks == {Qnil, "proc"}
Results == JSValues \cup JSExceptions

SmallArgs == { <<>>, <<JSString(<<"a">>), JSInt(1)>> }

\* Every operation of the host, the interpreter and the HTTP callback, on
\* the threads T and the sessions S, the scripts printing argument lists of
\* Args.
NextOn(T, S, Args) ==
    \/ \E t \in T, s \in S, code \in Codes : sandbox_eval_enter(t, s, code)
    \/ \E t \in T, s \in S, code \in Codes : mqjs_eval_enter(t, s, code)
    \/ \E t \in T : Poll(t)
    \/ \E t \in T, argv \in Args :
           \E oom \in SUBSET (1..Len(PrintPieces(argv, 1))) : js_print(t, argv, oom)
    \/ \E t \in T, argc \in {0, 1}, url_is_string \in BOOLEAN :
           js_fetch(t, argc, url_is_string, NoOptions, FALSE)
    \/ \E t \in T : js_fetch_resume(t, EmptyResponse)
    \/ \E t \in T : callback_raises(t)
    \/ \E t \in T, res \in Results : sandbox_eval_return(t, res)
    \/ \E t \in T, res \in Results : mqjs_eval_return(t, res)
    \/ \E t \in T, s \in S, cb \in Callbacks : sandbox_set_http_callback(t, s, cb)

\* One session used from one thread, with the clock running: the timeout
\* governor and the outcome of eval.  The console cap is 0.
Init == InitWith({"ext", "ffi"}, {-1, 0, 1}, {0})
Next == Tick \/ NextOn({1}, {1}, SmallArgs)
Spec == Init /\ [][Next]_vars

\* One session used from one thread with the timeout disabled: the console
\* buffer, with caps below, at and above the initial capacity and prints
\* that make it grow.
ConsoleSizes == {0, 3, INITIAL_CAPACITY + 2}

BigArgs ==
    { <<>>, <<JSString(<<"a">>), JSInt(1)>>, <<JSString(Fill("a", INITIAL_CAPACITY))>> }

InitConsole == InitWith({"ext", "ffi"}, {0}, ConsoleSizes)

NextConsole ==
    \/ \E code \in Codes : sandbox_eval_enter(1, 1, code)
    \/ \E code \in Codes : mqjs_eval_enter(1, 1, code)
    \/ \E argv \in BigArgs :
           \E oom \in SUBSET (1..Len(PrintPieces(argv, 1))) : js_print(1, argv, oom)
    \/ \E res \in Results : sandbox_eval_return(1, res)
    \/ \E res \in Results : mqjs_eval_return(1, res)

SpecConsole == InitConsole /\ [][NextConsole]_vars

\* Two sessions used from one thread, the timeout disabled: the host, and
\* the HTTP callback during an eval of one session, call eval on either.
SessionSizes == {INITIAL_CAPACITY \div 128}

ThreeArgs == { <<JSString(<<"a">>), JSInt(1), JSString(<<"b">>)>> }

InitSessions == InitWith({"ext"}, {0}, SessionSizes)

NextSessions ==
    \/ \E s \in Sessions : sandbox_eval_enter(1, s, "script")
    \/ \E argv \in ThreeArgs : js_print(1, argv, {})
    \/ \E argc \in {0, 1}, url_is_string \in BOOLEAN :
           js_fetch(1, argc, url_is_string, NoOptions, FALSE)
    \/ js_fetch_resume(1, EmptyResponse)
    \/ \E res \in JSValues : sandbox_eval_return(1, res)
    \/ \E s \in Sessions, cb \in Callbacks : sandbox_set_http_callback(1, s, cb)

SpecSessions == InitSessions /\ [][NextSessions]_vars

\* Two threads, each using a session of its own (thread t uses session t),
\* in every interleaving.  No callback is configured, so that no eval is
\* entered from inside another one.
InitThreads == InitWith({"ext", "ffi"}, {0}, SessionSizes)

NextThreads ==
    \/ \E t \in Threads : sandbox_eval_enter(t, t, "script")
    \/ \E t \in Threads : mqjs_eval_enter(t, t, "script")
    \/ \E t \in Threads, argv \in ThreeArgs : js_print(t, argv, {})
    \/ \E t \in Threads, res \in JSValues : sandbox_eval_return(t, res)
    \/ \E t \in Threads, res \in JSValues : mqjs_eval_return(t, res)

SpecThreads == InitThreads /\ [][NextThreads]_vars

\* One session whose scripts fetch with every kind of options and whose
\* callback answers with every kind of response.
ScriptOptions ==
    { NoOptions,
      [given |-> TRUE, method |-> <<>>, body |-> <<>>,
       headers |-> << <<"X-Script", "1">> >>],
      [given |-> TRUE, method |-> <<"POST">>, body |-> <<"data">>,
       headers |-> << <<"X-Script", "1">> >>],
      [given |-> TRUE, method |-> <<>>, body |-> <<"data">>, headers |-> <<>>],
      [given |-> TRUE, method |-> <<"POST">>, body |-> <<>>, headers |-> <<>>] }

CallbackResponses ==
    { EmptyResponse,
      [status |-> <<199>>, statusText |-> <<>>, body |-> <<"hello">>, headers |-> <<>>],
      [status |-> <<200>>, statusText |-> <<"Fine">>, body |-> <<>>,
       headers |-> << <<"X-Host", "1">> >>],
      [status |-> <<299>>, statusText |-> <<>>, body |-> <<>>, headers |-> <<>>],
      [status |-> <<300>>, statusText |-> <<"Moved">>, body |-> <<"hello">>,
       headers |-> << <<"X-Host", "1">> >>] }

InitFetch == InitWith({"ext"}, {0}, {0})

NextFetch ==
    \/ \E cb \in Callbacks : sandbox_set_http_callback(1, 1, cb)
    \/ sandbox_eval_enter(1, 1, "script")
    \/ \E argc \in {1, 2}, options \in ScriptOptions, stale \in BOOLEAN :
           js_fetch(1, argc, TRUE, options, stale)
    \/ \E rb_response \in CallbackResponses : js_fetch_resume(1, rb_response)
    \/ callback_raises(1)
    \/ \E res \in JSValues : sandbox_eval_return(1, res)

SpecFetch == InitFetch /\ [][NextFetch]_vars

\* One session whose global x is set from host values of every kind and
\* read back, whole and through its properties a and b.
BoundaryInts ==
    {INT32_MIN, -TwoTo30 - 1, -TwoTo30, -1, 0, 1, TwoTo30 - 1, TwoTo30, INT32_MAX}

Mapping == RbHash(<<"a", "b">>, <<RbInt(1), RbArray(<<RbInt(2), RbInt(3)>>)>>)

\* Numbers outside the 32-bit range and a non-integral one, by their
\* decimal text: 2^31 and -2^31 - 1 (Fixnum), 2^64 (Bignum), 0.5 (Float).
WideNumbers ==
    {RbValue("fixnum", <<"2", "1", "4", "7", "4", "8", "3", "6", "4", "8">>,
             0, <<>>, <<>>),
     RbValue("fixnum", <<"-", "2", "1", "4", "7", "4", "8", "3", "6", "4", "9">>,
             0, <<>>, <<>>),
     RbValue("bignum", <<"1", "8", "4", "4", "6", "7", "4", "4", "0", "7", "3",
                         "7", "0", "9", "5", "5", "1", "6", "1", "6">>,
             0, <<>>, <<>>),
     RbValue("float", <<"0", ".", "5">>, 0, <<>>, <<>>)}

\* ["p", {"k": "q", "l": "r"}, "s"]: the values are numbered 1 (the
\* sequence), 2 ("p"), 3 (the mapping), 4 ("q"), 5 ("r"), 6 ("s").
Nested ==
    RbArray(<<RbString(<<"p">>),
              RbHash(<<"k", "l">>, <<RbString(<<"q">>), RbString(<<"r">>)>>),
              RbString(<<"s">>)>>)

HostValues ==
    {RbInt(n) : n \in BoundaryInts}
        \cup {Mapping, RbArray(<<RbInt(2), RbInt(3)>>), RbString(<<"h", "i">>),
              RbNil, RbBool(TRUE), RbBool(FALSE), RbFloat(1), Nested}
        \cup WideNumbers

Positions == 1..6

\* The interpreter's choices: with every allocation and store succeeding,
\* and with one or two failing allocations and no or one failing store.
Contexts == [boxed : BOOLEAN, fails : {{}}, store_fails : {{}}]

FailingContexts ==
    [boxed : {FALSE},
     fails : {{}} \cup {{p} : p \in Positions} \cup {{4, 6}},
     store_fails : {{}, {3}, {4}}]

Paths == {<<>>, <<"a">>, <<"b">>}

InitMarshal == InitWith({"ext"}, {0}, {0})

NextMarshal ==
    \/ \E rb_val \in HostValues, ctx \in Contexts :
           sandbox_set_variable(1, 1, rb_val, ctx)
    \/ \E rb_val \in {Nested, Mapping}, ctx \in FailingContexts :
           sandbox_set_variable(1, 1, rb_val, ctx)
    \/ \E path \in Paths : sandbox_eval_variable(1, 1, path)

SpecMarshal == InitMarshal /\ [][NextMarshal]_vars

\* One session used from one thread with the timeout disabled, every call
\* of append_console_output logged: prints of two bytes and of the initial
\* capacity, into buffers with caps below and above it.
AppendSizes == {3, INITIAL_CAPACITY + 2}

AppendArgs ==
    { <<JSString(<<"b", "c">>)>>, <<JSString(Fill("a", INITIAL_CAPACITY))>> }

InitAppend == InitLogged({"ext", "ffi"}, {0}, AppendSizes, TRUE)

NextAppend ==
    \/ sandbox_eval_enter(1, 1, "script")
    \/ mqjs_eval_enter(1, 1, "script")
    \/ \E argv \in AppendArgs :
           \E oom \in SUBSET (1..Len(PrintPieces(argv, 1))) : js_print(1, argv, oom)
    \/ \E res \in JSValues : sandbox_eval_return(1, res)
    \/ \E res \in JSValues : mqjs_eval_return(1, res)

SpecAppend == InitAppend /\ [][NextAppend]_vars

\* Two host objects created and torn down, through either library, with
\* every step of the creation failing or none.
FailPoints == {"none", "mem_buf", "console_output", "ctx"}

FieldsRead == [mem_buf : BOOLEAN, console_output : BOOLEAN, ctx : BOOLEAN]

InitCreate == InitWith({"ext", "ffi"}, {0}, {0})

NextCreate ==
    \/ \E o \in Sessions : sandbox_alloc(o)
    \/ \E o \in Sessions, fail \in FailPoints : sandbox_initialize(o, fail)
    \/ \E o \in Sessions, read \in FieldsRead : sandbox_free(o, read)
    \/ \E o \in Sessions, fail \in FailPoints \cup {"wrapper"} : mqjs_new_context(o, fail)
    \/ \E o \in Sessions : mqjs_free_context(o)

SpecCreate == InitCreate /\ [][NextCreate]_vars

(***************************************************************************)
(* Properties of the console buffer.                                       *)
(***************************************************************************)
\* C1: in every reachable state the stored console length of every session
\* is at most the session's cap.
C1_LenWithinCap ==
    \A s \in Sessions : wrapper[s].console_output_len <= wrapper[s].console_max_size

\* A buffer grown past its initial capacity and filled to a cap that cut a
\* print short.
C1_Witness ==
    \E s \in Sessions :
        /\ wrapper[s].console_max_size > INITIAL_CAPACITY
        /\ wrapper[s].console_output_len = wrapper[s].console_max_size
        /\ wrapper[s].console_truncated

\* C2 as stated: once the texts one eval has passed to append exceed the
\* cap in total, the stored length equals the cap and truncated is set.
C2_PerEvalExactCap ==
    \A t \in Threads :
        (stack[t] # <<>> /\ Top(t).fed_len > wrapper[Top(t).sess].console_max_size) =>
            /\ wrapper[Top(t).sess].console_output_len
                   = wrapper[Top(t).sess].console_max_size
            /\ wrapper[Top(t).sess].console_truncated

\* C2, amended: once the texts passed to append since the buffer was last
\* reset exceed the cap in total, and no append among them was dropped for a
\* failed growth of the buffer, the stored length equals the cap and
\* truncated is set.
C2_ExactCapUnlessDropped ==
    \A s \in Sessions :
        (/\ since_reset[s].fed_len > wrapper[s].console_max_size
         /\ ~since_reset[s].realloc_failed) =>
            /\ wrapper[s].console_output_len = wrapper[s].console_max_size
            /\ wrapper[s].console_truncated

\* More than the cap was printed into a buffer that grew, every growth
\* having succeeded.
C2_Witness ==
    \E s \in Sessions :
        /\ since_reset[s].fed_len > wrapper[s].console_max_size
        /\ ~since_reset[s].realloc_failed
        /\ wrapper[s].console_output_capacity > INITIAL_CAPACITY

\* C3: the console text and the truncated flag an eval hands to the host
\* come from that eval's own prints: the text is as long as what its prints
\* stored, and the flag is set only if one of its appends set it.
C3_NoLeak ==
    last.outcome \in {"Completed", "Returned"} =>
        /\ Len(last.console_output) = last.stored
        /\ last.console_truncated => last.truncating

(***************************************************************************)
(* Properties of the timeout governor and of the outcome of eval.          *)
(***************************************************************************)
InFlight(s) == {<<t, i>> \in Threads \X (1..MaxDepth + 1) :
                    i <= Len(stack[t]) /\ stack[t][i].sess = s}

ReportedTimedOut ==
    \/ last.outcome = "TimedOut"
    \/ (last.outcome = "Returned" /\ last.timed_out)

\* C4: when the interpreter has returned from a native eval, the outcome is
\* TimedOut exactly when the session's timed_out flag was set at that point,
\* whatever the interpreter returned; Completed, SyntaxError and ScriptError
\* are produced only with the flag clear.
C4_TimeoutPreempts ==
    last.outcome \in {"Completed", "SyntaxError", "ScriptError", "TimedOut"} =>
        /\ last.res.kind # "none"
        /\ (last.timed_out <=> last.outcome = "TimedOut")

\* An eval ended TimedOut although the interpreter returned a syntax error.
C4_Witness ==
    /\ last.outcome = "TimedOut"
    /\ last.res.kind = "exception"
    /\ last.res.class_id = JS_CLASS_SYNTAX_ERROR

C6_PollDecision ==
    [][\A t \in Threads :
          Poll(t) =>
              LET s == Top(t).sess
                  w == wrapper[s]
                  due == w.timeout_ms > 0 /\ now - w.start_time_ms > w.timeout_ms
              IN  /\ stack'[t][Len(stack[t])].aborted <=> (Top(t).aborted \/ due)
                  /\ due => wrapper'[s].timed_out
                  /\ ~due => wrapper'[s] = w]_vars

\* An eval interrupted by the poll made one millisecond past its budget.
C6_Witness ==
    \E t \in Threads :
        /\ Running(t)
        /\ Top(t).aborted
        /\ wrapper[Top(t).sess].timed_out
        /\ now - wrapper[Top(t).sess].start_time_ms = wrapper[Top(t).sess].timeout_ms + 1

\* C7: from the poll that asked an eval's interpreter to interrupt until
\* that eval call has ended, the session's timed_out flag is set, and a poll
\* of that eval made at any moment asks for the interrupt again.
C7_Latched ==
    \A t \in Threads : \A i \in 1..Len(stack[t]) :
        stack[t][i].aborted =>
            /\ wrapper[stack[t][i].sess].timed_out
            /\ interrupt_handler(wrapper[stack[t][i].sess], now).ret = 1

\* An interrupted eval that has not ended yet, the clock having moved on.
C7_Witness ==
    \E t \in Threads :
        /\ Running(t)
        /\ Top(t).aborted
        /\ now - wrapper[Top(t).sess].start_time_ms > wrapper[Top(t).sess].timeout_ms + 1

\* C8: an eval is reported TimedOut only if one of its own polls came
\* after its own deadline (its elapsed time, counted from its entry,
\* exceeded timeout_ms).
C8_OwnPollsOnly == ReportedTimedOut => last.late_poll

\* C9: every eval call that has ended produced one of Completed, TimedOut,
\* SyntaxError and ScriptError (Returned: the FFI's mqjs_eval handed back
\* the interpreter's value).
C9_ClosedOutcomes ==
    last.outcome \in {"none", "Completed", "TimedOut", "SyntaxError", "ScriptError",
                      "Returned"}

\* C10: no session has two evals in flight.
C10_OneEvalInFlight == \A s \in Sessions : Cardinality(InFlight(s)) <= 1

(***************************************************************************)
(* Properties of the ambient binding.                                      *)
(***************************************************************************)
\* C11: while the script of an eval can call print or fetch, the ambient
\* binding of its thread designates the eval's session.  Stated for the
\* evals of a session on which no other eval has been made, so that none
\* is nested in it on the same session.
C11_AmbientIsOwnSession ==
    \A t \in Threads :
        (IF Running(t) THEN ScriptRuns(Top(t)) /\ evals[Top(t).sess] = 1 ELSE FALSE) =>
            current_wrapper[Slot(t)] = Top(t).sess

\* C12: with each thread running the evals of a session of its own, the
\* ambient binding a running eval's print and fetch calls read never
\* designates another session, and a print call leaves every other
\* session's wrapper as it was.
C12_ThreadsDoNotCollide ==
    /\ [](\A t \in Threads :
             Running(t) => current_wrapper[Slot(t)] \in {NULL, Top(t).sess})
    /\ [][\A t \in Threads, argv \in ThreeArgs :
             js_print(t, argv, {}) =>
                 \A s \in Sessions \ {Top(t).sess} : wrapper'[s] = wrapper[s]]_vars

\* Both threads are inside an eval at once, and each eval's print has
\* reached the buffer of its own session.
C12_Witness ==
    /\ \A t \in Threads :
           IF Running(t) THEN Top(t).sess = t /\ Top(t).stored > 0 ELSE FALSE
    /\ \A s \in Sessions : wrapper[s].console_output_len > 0

(***************************************************************************)
(* Properties of print.                                                    *)
(***************************************************************************)
\* The text of one print call: the arguments from the i-th on as text, one
\* space before each but the first, and one newline at the end.
RECURSIVE SpacedText(_, _)
SpacedText(argv, i) ==
    IF i > Len(argv) THEN <<"\n">>
    ELSE (IF i > 1 THEN <<" ">> ELSE <<>>) \o JS_ToString(argv[i])
         \o SpacedText(argv, i + 1)

\* C13: a print call with at least one argument, made by the script of an
\* eval while its text fits in what is left of the session's console cap
\* (and no growth of the buffer fails), appends to the session's console
\* exactly its arguments as text, separated by single spaces and followed
\* by one newline.
C13_PrintFormat ==
    [][\A t \in Threads, argv \in ThreeArgs :
          LET w == wrapper[Top(t).sess]
          IN  (/\ js_print(t, argv, {})
               /\ Len(argv) >= 1
               /\ w.console_output_len + Len(SpacedText(argv, 1)) <= w.console_max_size)
              => wrapper'[Top(t).sess].console_output
                     = SubSeq(w.console_output, 1, w.console_output_len)
                           \o SpacedText(argv, 1)]_vars

(***************************************************************************)
(* Properties of fetch.                                                    *)
(***************************************************************************)
\* What a fetch call is to do, given the callback stored in the session of
\* the eval that makes it: "no" exception (the callback is called), the
\* "disabled" exception, or a "type" exception.
FetchExpected(callback, argc, url_is_string) ==
    IF callback = Qnil THEN "disabled"
    ELSE IF argc >= 1 /\ url_is_string THEN "no"
    ELSE "type"

\* C14: a fetch call made by the script of a running eval calls the
\* session's callback exactly when one is configured, an argument is given
\* and the url coerces to a string; otherwise it calls none and throws the
\* disabled-feature exception if no callback is configured, and a type
\* exception if one is.
C14_FetchGate ==
    \A t \in Threads :
        (IF Running(t) THEN ScriptRuns(Top(t)) ELSE FALSE) =>
            \A argc \in {0, 1}, url_is_string \in BOOLEAN :
                FetchThrows(current_wrapper[Slot(t)], argc, url_is_string)
                    = FetchExpected(wrapper[Top(t).sess].rb_http_callback,
                                    argc, url_is_string)

\* C15: the headers the callback is given are always empty, whatever
\* headers the script put in its options, and the headers of the object
\* fetch returns are always empty, whatever headers the callback answered.
C15_HeadersDropped ==
    /\ \A t \in Threads : \A i \in 1..Len(stack[t]) :
           stack[t][i].request.called => stack[t][i].request.headers = <<>>
    /\ fetched.returned => fetched.headers = <<>>

\* A fetch whose options carry headers is at its callback, after an earlier
\* fetch whose callback answered with headers.
C15_Witness ==
    /\ fetched.returned
    /\ fetched.rb_response.headers # <<>>
    /\ \E t \in Threads :
           IF stack[t] = <<>> THEN FALSE
           ELSE Top(t).request.called /\ Top(t).request.options.headers # <<>>

\* C16: the object fetch returns has the callback's status, or 200 when the
\* callback gave none, the callback's statusText, or "OK", the callback's
\* body, or "", and ok true exactly when 200 <= status < 300 for that
\* status; and the callback is given the method "GET" when the options give
\* no method, and no body when the options give no body.
C16_ResponseDefaults ==
    /\ fetched.returned =>
           LET r == fetched.rb_response
           IN  /\ fetched.status = IF r.status = <<>> THEN 200 ELSE r.status[1]
               /\ fetched.statusText
                      = IF r.statusText = <<>> THEN "OK" ELSE r.statusText[1]
               /\ fetched.body = IF r.body = <<>> THEN "" ELSE r.body[1]
               /\ fetched.ok <=> (200 <= fetched.status /\ fetched.status < 300)
    /\ \A t \in Threads : \A i \in 1..Len(stack[t]) :
           LET q == stack[t][i].request
           IN  q.called =>
                   /\ (~q.options.given \/ q.options.method = <<>>) => q.method = "GET"
                   /\ (~q.options.given \/ q.options.body = <<>>) => q.body = <<>>

\* A fetch without options is at its callback, after an earlier fetch whose
\* callback answered with no status, statusText or body.
C16_Witness ==
    /\ fetched.returned
    /\ fetched.rb_response.status = <<>>
    /\ fetched.rb_response.statusText = <<>>
    /\ fetched.rb_response.body = <<>>
    /\ fetched.ok
    /\ \E t \in Threads :
           IF stack[t] = <<>> THEN FALSE
           ELSE /\ Top(t).request.called
                /\ ~Top(t).request.options.given
                /\ Top(t).request.method = "GET"

(***************************************************************************)
(* Properties of the stored callback.                                      *)
(***************************************************************************)
\* C17: the stored callback of a session changes only when
\* sandbox_set_http_callback stores another one (no eval, whatever its
\* outcome, changes it), and while the script of an eval runs, fetch is
\* enabled (a call with a url reaches the callback) exactly when the
\* session's stored callback is not nil.
C17_CallbackGovernsFetch ==
    /\ [][(\E s \in Sessions :
              wrapper'[s].rb_http_callback # wrapper[s].rb_http_callback)
          => \E t \in Threads, s \in Sessions, cb \in Callbacks :
                 sandbox_set_http_callback(t, s, cb)]_vars
    /\ [](\A t \in Threads :
             (IF Running(t) THEN ScriptRuns(Top(t)) ELSE FALSE) =>
                 ((FetchThrows(current_wrapper[Slot(t)], 1, TRUE) = "no")
                      <=> (wrapper[Top(t).sess].rb_http_callback # Qnil)))

(***************************************************************************)
(* Properties of the outcome of eval.                                      *)
(***************************************************************************)
\* C18: an eval that ends with an exception and without a timeout ends as
\* SyntaxError if its source text was malformed, and as ScriptError if the
\* exception was raised by the running script, whatever was thrown.
C18_SyntaxErrorIffMalformed ==
    [][\A t \in Threads, res \in JSExceptions :
          (sandbox_eval_return(t, res) /\ ~wrapper[Top(t).sess].timed_out)
              => last'.outcome = IF Top(t).malformed THEN "SyntaxError"
                                 ELSE "ScriptError"]_vars

(***************************************************************************)
(* Properties of the value marshaler.                                      *)
(***************************************************************************)
\* C19: when the host mapping {"a": 1, "b": [2, 3]} has been stored as a
\* script value, reading its property b back gives the host sequence
\* [2, 3], equal to the original, and reading the whole object back gives
\* text, not a mapping equal to the original.
C19_AsymmetricRoundTrip ==
    \A s \in Sessions :
        LET m == marshal[s]
        IN  (m.read /\ m.rb_val = Mapping /\ ~m.lost /\ ~m.raised) =>
                /\ m.path = <<"b">> => m.rb_value = RbArray(<<RbInt(2), RbInt(3)>>)
                /\ m.path = <<>> => (m.rb_value.type = "string" /\ m.rb_value # m.rb_val)

\* C20: a host integer of the signed 32-bit range, stored as a script value
\* and read back, is the same integer, as an integer.
C20_Int32RoundTrip ==
    \A s \in Sessions :
        LET m == marshal[s]
        IN  (/\ m.read
             /\ m.path = <<>>
             /\ m.rb_val.type = "fixnum"
             /\ m.rb_val.bytes = <<>>
             /\ m.rb_val.val >= INT32_MIN
             /\ m.rb_val.val <= INT32_MAX)
                => m.rb_value = RbInt(m.rb_val.val)

\* C21: a host number outside the signed 32-bit range, however large, or
\* not integral, becomes a script number held as a float.
C21_WideNumbersAreFloats ==
    \A s \in Sessions :
        LET m == marshal[s]
        IN  (/\ m.set
             /\ m.rb_val.type \in {"fixnum", "bignum", "float"}
             /\ m.rb_val.bytes # <<>>)
                => m.js_val.tag = "float"

\* C22: when something fails while set_variable converts its argument (an
\* allocation for a value, or the store of a converted value into its
\* sequence or mapping), the conversion has stopped at the first failing
\* value, set_variable raises, and the global is as it was before the call.
C22_FailureAborts ==
    /\ [](\A s \in Sessions :
             LET m == marshal[s]
             IN  m.called =>
                     /\ (m.failed_at # 0 \/ m.lost) => m.raised
                     /\ m.failed_at # 0 => m.visited = m.failed_at)
    /\ [][\A s \in Sessions :
             (marshal'[s].raised /\ marshal'[s] # marshal[s]) =>
                 /\ marshal'[s].set = marshal[s].set
                 /\ marshal'[s].rb_val = marshal[s].rb_val
                 /\ marshal'[s].js_val = marshal[s].js_val]_vars


(***************************************************************************)
(* Properties of creation and teardown.                                    *)
(***************************************************************************)
\* The guard of eval passes on host object o: the host holds a pointer to
\* a ContextWrapper whose ctx is not NULL.
EvalCanRun(o) == heap[o].handle /\ heap[o].ctx

\* C23: in every reachable state, for every host object whose creation
\* failed (at the arena, the console buffer or the interpreter, through
\* either library), no resource was released more often than it was
\* acquired, after the teardown of the host object every acquired resource
\* was released exactly once, and eval cannot run on the object.
C23_FailedCreationReleasesOnce ==
    \A o \in Sessions :
        heap[o].failed_at \in {"mem_buf", "console_output", "ctx"} =>
            /\ \A r \in Resources : heap[o].released[r] <= heap[o].acquired[r]
            /\ heap[o].state = "collected" =>
                   \A r \in Resources : heap[o].released[r] = heap[o].acquired[r]
            /\ ~EvalCanRun(o)


(***************************************************************************)
(* Further properties of the console buffer.                               *)
(***************************************************************************)
\* C24: a step clears the truncated flag of a session only if no eval is
\* in flight on the session before it and one is after it: the flag set
\* during an eval stays set until that eval has ended, and what clears it
\* is the entry of the next eval.
C24_TruncatedSticks ==
    [][\A s \in Sessions :
          (wrapper[s].console_truncated /\ ~wrapper'[s].console_truncated) =>
              /\ InFlight(s) = {}
              /\ InFlight(s)' # {}]_vars


(***************************************************************************)
(* Further properties of the ambient binding.                              *)
(***************************************************************************)
\* C25: every step that ends an eval call of a thread, whatever way the
\* call ends, leaves the thread's ambient binding empty.
C25_AmbientEmptyAfterEval ==
    [][\A t \in Threads :
          Len(stack'[t]) < Len(stack[t]) => current_wrapper'[Slot(t)] = NULL]_vars


(***************************************************************************)
(* Further properties of the timeout governor.                             *)
(***************************************************************************)
\* C26: no step taken while an eval waits in its HTTP callback changes the
\* timed_out flag of that eval's session or counts as a poll of that eval;
\* and an eval that ends past its deadline without a poll of its own having
\* come after the deadline (its callback took the time, and the interpreter
\* did not poll after the callback returned) ends Completed or Excepted.
C26_CallbackNotGoverned ==
    /\ [][\A t \in Threads : \A i \in 1..Len(stack[t]) :
             stack[t][i].in_callback =>
                 /\ wrapper'[stack[t][i].sess].timed_out
                        = wrapper[stack[t][i].sess].timed_out
                 /\ i <= Len(stack'[t]) =>
                        /\ stack'[t][i].late_poll = stack[t][i].late_poll
                        /\ stack'[t][i].aborted = stack[t][i].aborted]_vars
    /\ [][\A t \in Threads, res \in Results :
             (/\ sandbox_eval_return(t, res)
              /\ PastDeadline(Top(t))
              /\ ~Top(t).late_poll)
                 => last'.outcome \in {"Completed", "SyntaxError", "ScriptError"}]_vars


\* The bytes a session's buffer holds.
Stored(s) == SubSeq(wrapper[s].console_output, 1, wrapper[s].console_output_len)

\* The bytes of the logged calls from the i-th on, in call order.
RECURSIVE Fed(_, _)
Fed(calls, i) == IF i > Len(calls) THEN <<>> ELSE calls[i].str \o Fed(calls, i + 1)

IsPrefix(a, b) == Len(a) <= Len(b) /\ a = SubSeq(b, 1, Len(a))

AnyDropped(calls) == \E i \in 1..Len(calls) : calls[i].dropped

\* The buffer of session s as its last reset left it.
BufferAtReset(s) ==
    [wrapper[s] EXCEPT !.console_output = <<>>, !.console_output_len = 0,
                       !.console_truncated = FALSE,
                       !.console_output_capacity = since_reset[s].capacity]

\* The logged calls made again with the dropped ones left out and every
\* realloc succeeding.
RECURSIVE KeptAppends(_, _, _)
KeptAppends(w, calls, i) ==
    IF i > Len(calls) THEN w
    ELSE IF calls[i].dropped THEN KeptAppends(w, calls, i + 1)
    ELSE KeptAppends(append_console_output(w, calls[i].str, TRUE), calls, i + 1)

\* C27: an append that needs more capacity and whose realloc fails leaves
\* the stored length, the stored bytes and the capacity as if it had not
\* been made, and the appends after it go on as usual: in every reachable
\* state the buffer is what the appends that were not dropped make of it,
\* and no eval has been aborted or ended with a host exception.
C27_FailedGrowthStoresNothing ==
    /\ \A s \in Sessions :
           since_reset[s].logged =>
               LET kept == KeptAppends(BufferAtReset(s), since_reset[s].calls, 1)
               IN  /\ wrapper[s].console_output_len = kept.console_output_len
                   /\ wrapper[s].console_output = kept.console_output
                   /\ wrapper[s].console_output_capacity = kept.console_output_capacity
    /\ \A t \in Threads : \A i \in 1..Len(stack[t]) : ~stack[t][i].aborted
    /\ last.outcome # "HostException"

\* A text was dropped because the buffer could not grow past its initial
\* capacity, and the newline appended after it was stored.
C27_Witness ==
    \E s \in Sessions :
        /\ since_reset[s].logged
        /\ Len(since_reset[s].calls) = 4
        /\ since_reset[s].calls[3].dropped
        /\ wrapper[s].console_output_capacity = INITIAL_CAPACITY
        /\ Stored(s) = <<"b", "c", "\n", "\n">>

\* C28: in every reachable state 0 <= console_output_len <=
\* console_output_capacity <= console_max_size, the buffer holds
\* console_output_len bytes, the capacity is at least min(1024,
\* console_max_size), the capacity the session is created with, and no
\* step lowers the capacity.
C28_BufferBounds ==
    /\ [](\A s \in Sessions :
             LET w == wrapper[s]
             IN  /\ 0 <= w.console_output_len
                 /\ w.console_output_len <= w.console_output_capacity
                 /\ w.console_output_capacity <= w.console_max_size
                 /\ Len(w.console_output) = w.console_output_len
                 /\ w.console_output_capacity
                        >= Min(INITIAL_CAPACITY, w.console_max_size)
                 /\ evals[s] = 0 =>
                        w.console_output_capacity
                            = Min(INITIAL_CAPACITY, w.console_max_size))
    /\ [][\A s \in Sessions :
             wrapper'[s].console_output_capacity
                 >= wrapper[s].console_output_capacity]_vars

\* A buffer grown from its initial capacity to the cap and filled to it.
C28_Witness ==
    \E s \in Sessions :
        /\ wrapper[s].console_output_capacity > INITIAL_CAPACITY
        /\ wrapper[s].console_output_capacity = wrapper[s].console_max_size
        /\ wrapper[s].console_output_len = wrapper[s].console_output_capacity

\* C29 as stated: the stored bytes are a prefix of the bytes passed to
\* append since the reset, in call order.
C29_StoredIsPrefix ==
    \A s \in Sessions :
        since_reset[s].logged => IsPrefix(Stored(s), Fed(since_reset[s].calls, 1))

\* C29, amended: as long as no append made since the reset was dropped for
\* a failed growth of the buffer, the stored bytes are a prefix of the
\* bytes passed to append since the reset, in call order.
C29_StoredIsPrefixUnlessDropped ==
    \A s \in Sessions :
        (since_reset[s].logged /\ ~AnyDropped(since_reset[s].calls)) =>
            IsPrefix(Stored(s), Fed(since_reset[s].calls, 1))

\* A text cut in the middle by the cap, in a buffer that grew, no append
\* having been dropped.
C29_Witness ==
    \E s \in Sessions :
        /\ since_reset[s].logged
        /\ ~AnyDropped(since_reset[s].calls)
        /\ wrapper[s].console_output_len = INITIAL_CAPACITY + 2
        /\ Stored(s)[INITIAL_CAPACITY + 2] = "b"
        /\ Len(Fed(since_reset[s].calls, 1)) = INITIAL_CAPACITY + 4

\* C30 as stated: truncated is set exactly when some byte passed to append
\* since the reset was not stored.
C30_TruncatedIffLost ==
    \A s \in Sessions :
        since_reset[s].logged =>
            (wrapper[s].console_truncated
                <=> Len(Fed(since_reset[s].calls, 1)) > wrapper[s].console_output_len)

\* C30, amended: truncated is set only if some byte passed to append since
\* the reset was not stored; and if some byte was not stored and no append
\* was dropped for a failed growth of the buffer, truncated is set.
C30_TruncatedIffLostUnlessDropped ==
    \A s \in Sessions :
        since_reset[s].logged =>
            LET lost == Len(Fed(since_reset[s].calls, 1)) > wrapper[s].console_output_len
            IN  /\ wrapper[s].console_truncated => lost
                /\ (lost /\ ~AnyDropped(since_reset[s].calls))
                       => wrapper[s].console_truncated

\* A buffer filled exactly to its cap by one print, and a later print lost
\* whole with the flag set.
C30_Witness ==
    \E s \in Sessions :
        /\ since_reset[s].logged
        /\ ~AnyDropped(since_reset[s].calls)
        /\ Stored(s) = <<"b", "c", "\n">>
        /\ Len(since_reset[s].calls) = 4
        /\ wrapper[s].console_truncated

=============================================================================
